---- MODULE Spec2Model ----
(***************************************************************************)
(* HD44780 character LCD driver in 4-bit bus mode (src/src/index.js).      *)
(*                                                                         *)
(* The driver is single-threaded JavaScript: every handler below runs to   *)
(* completion as one atomic step.  Three kinds of deferred work exist:     *)
(*   - the acknowledgement of the enable line's falling edge               *)
(*     (this._e.write(0, cb)), kept in pendingAck;                         *)
(*   - setTimeout(done, delay) timers, kept in timers;                     *)
(*   - setImmediate(callback, error, value), kept in immediates (FIFO).    *)
(* Commands may be issued between any two of these steps, which covers     *)
(* commands issued from inside completion callbacks.                       *)
(***************************************************************************)
EXTENDS Integers, Sequences, FiniteSets, TLC

VARIABLES
    phase,            \* "new" | "attached" | "ready" | "detached"
    _displayControl,  \* this._displayControl; NotSet before attach
    lines,            \* level last written to each output line
    _queue,           \* this._queue: <<>> is undefined, <<q>> is the array q
    activeItem,       \* closure variable of _write: <<>> undefined, <<item>>
    pendingAck,       \* _processWrite closures waiting for e.write(0, cb)
    timers,           \* pending setTimeout(done, delay)
    immediates,       \* pending setImmediate(callback, error, value), FIFO
    values,           \* per call: eachSeries' remaining characters
    uncaught,         \* an error was thrown by invokeCallback
    sinceLatch,       \* time units since the last enable falling edge
    wrote,            \* line writes made since the last _processWrite began
    loops,            \* history: drain loops started and not yet ended
    calls,            \* history: public calls made, in order
    issued,           \* history: logical writes (bytes and bare nibbles)
    enq,              \* history: items in the order _write received them
    bus,              \* history: nibble transactions started on the lines
    faults,           \* history: indexes in bus of transactions that faulted
    fired,            \* history: item callbacks invoked, with their error
    notes             \* history: callers' callbacks invoked, with their error

vars == <<phase, _displayControl, lines, _queue, activeItem, pendingAck,
          timers, immediates, values, uncaught, sinceLatch, wrote, loops,
          calls, issued, enq, bus, faults, fired, notes>>

(***************************************************************************)
(* Bounds of the model.                                                    *)
(***************************************************************************)
MaxCalls == 3      \* public calls per run, attach included
MaxFaults == 1     \* line faults per run
MaxTextLen == 2    \* longest text handed to print
MaxPrints == 2     \* print calls per run

Sample == <<72, 165, 33, 65>>  \* character codes printed: 0x48 0xA5 0x21 0x41
Columns == {2}                 \* columns handed to setCursor (Spec)
MaxColumn == 47                \* widest column handed to setCursor (SpecCursor)
Rows == {1}                    \* rows handed to setCursor (Spec)

(***************************************************************************)
(* Constants of the program.                                               *)
(***************************************************************************)
Register == [instruction |-> 0, data |-> 1]
ReadWrite == [read |-> 1, write |-> 0]
Instruction == [clearDisplay |-> 1, returnHome |-> 2, setEntryMode |-> 4,
                setDisplayControl |-> 8, shiftCursor |-> 16,
                setCgramAddress |-> 64, setDdramAddress |-> 128]
DisplayControl == [display |-> 4, cursor |-> 2, blink |-> 1]
EntryMode == [increment |-> 2, shift |-> 1]
ClearDelay == 10               \* the delay clear() passes
ys == <<0, 64, 20, 84>>        \* setCursor's row base addresses

NotSet == -1                   \* a field that has not been assigned yet

(***************************************************************************)
(* JavaScript values that travel through the delay/callback parameters.    *)
(***************************************************************************)
Undefined == [type |-> "undefined", num |-> 0, fn |-> "", id |-> 0]
Number(n) == [type |-> "number", num |-> n, fn |-> "", id |-> 0]
Function(f, c) == [type |-> "function", num |-> 0, fn |-> f, id |-> c]
LineError == [type |-> "object", num |-> 0, fn |-> "Error", id |-> 0]

typeof(v) == v.type
Truthy(v) ==
    \/ v.type \in {"function", "object"}
    \/ v.type = "number" /\ v.num # 0

(***************************************************************************)
(* Bit arithmetic on naturals.                                             *)
(***************************************************************************)
RECURSIVE Pow2(_)
Pow2(k) == IF k = 0 THEN 1 ELSE 2 * Pow2(k - 1)

Shr(b, k) == b \div Pow2(k)

Bit(b, k) == Shr(b, k) % 2

RECURSIVE BitOr(_, _)
BitOr(a, b) ==
    IF a = 0 THEN b
    ELSE IF b = 0 THEN a
    ELSE (IF a % 2 = 1 \/ b % 2 = 1 THEN 1 ELSE 0) + 2 * BitOr(a \div 2, b \div 2)

RECURSIVE BitAnd(_, _)
BitAnd(a, b) ==
    IF a = 0 \/ b = 0 THEN 0
    ELSE (IF a % 2 = 1 /\ b % 2 = 1 THEN 1 ELSE 0) + 2 * BitAnd(a \div 2, b \div 2)

\* a & ~b for a in 0..255 and b a non-negative mask
BitClear(a, b) == a - BitAnd(a, b)

Min(a, b) == IF a < b THEN a ELSE b

(***************************************************************************)
(* The driver's state as one record, threaded through the handlers.        *)
(***************************************************************************)
Now ==
    [phase |-> phase, _displayControl |-> _displayControl, lines |-> lines,
     _queue |-> _queue, activeItem |-> activeItem, pendingAck |-> pendingAck,
     timers |-> timers, immediates |-> immediates, values |-> values,
     uncaught |-> uncaught, sinceLatch |-> sinceLatch, wrote |-> wrote,
     loops |-> loops,
     calls |-> calls, issued |-> issued, enq |-> enq, bus |-> bus,
     faults |-> faults, fired |-> fired, notes |-> notes,
     ctx |-> 0,         \* the public call whose code is running (not kept)
     calling |-> <<>>]  \* synchronous callback calls about to be made

Assign(s) ==
    /\ phase' = s.phase
    /\ _displayControl' = s._displayControl
    /\ lines' = s.lines
    /\ _queue' = s._queue
    /\ activeItem' = s.activeItem
    /\ pendingAck' = s.pendingAck
    /\ timers' = s.timers
    /\ immediates' = s.immediates
    /\ values' = s.values
    /\ uncaught' = s.uncaught
    /\ sinceLatch' = s.sinceLatch
    /\ wrote' = s.wrote
    /\ loops' = s.loops
    /\ calls' = s.calls
    /\ issued' = s.issued
    /\ enq' = s.enq
    /\ bus' = s.bus
    /\ faults' = s.faults
    /\ fired' = s.fired
    /\ notes' = s.notes

\* line.write(level)
LineWrite(s, line, level) ==
    [s EXCEPT !.lines = [s.lines EXCEPT ![line] = level],
              !.wrote = Append(@, <<line, level>>)]

\* the nibble the four data lines present
DataNibble(l) == 8 * l.d7 + 4 * l.d6 + 2 * l.d5 + l.d4

(***************************************************************************)
(* _processWrite: one nibble transaction.  The enable falling edge is      *)
(* acknowledged later (action Ack), which then runs the inner callback.    *)
(***************************************************************************)
\* faulty variant: the data lines are written least significant bit first
_processWrite_lsbFirst(s, rs, rw, bits, delay, callback) ==
    LET s1 == LineWrite([s EXCEPT !.wrote = <<>>], "rs", rs)
        s2 == LineWrite(s1, "rw", rw)
        s3 == LineWrite(s2, "d4", Bit(bits, 0))
        s4 == LineWrite(s3, "d5", Bit(bits, 1))
        s5 == LineWrite(s4, "d6", Bit(bits, 2))
        s6 == LineWrite(s5, "d7", Bit(bits, 3))
        s7 == LineWrite(s6, "e", 1)
        s8 == LineWrite(s7, "e", 0)
    IN  [s8 EXCEPT
            !.bus = Append(@, [rs |-> s8.lines.rs, rw |-> s8.lines.rw,
                               d |-> DataNibble(s8.lines), delay |-> delay,
                               at |-> s.sinceLatch,
                               overlap |-> Len(s.pendingAck) + Len(s.timers)]),
            !.pendingAck = Append(@, [delay |-> delay, callback |-> callback,
                                      tx |-> Len(s.bus) + 1])]

_processWrite(s, rs, rw, bits, delay, callback) ==
    LET s1 == LineWrite([s EXCEPT !.wrote = <<>>], "rs", rs)
        s2 == LineWrite(s1, "rw", rw)
        s3 == LineWrite(s2, "d7", Bit(bits, 3))
        s4 == LineWrite(s3, "d6", Bit(bits, 2))
        s5 == LineWrite(s4, "d5", Bit(bits, 1))
        s6 == LineWrite(s5, "d4", Bit(bits, 0))
        s7 == LineWrite(s6, "e", 1)
        s8 == LineWrite(s7, "e", 0)
    IN  [s8 EXCEPT
            !.bus = Append(@, [rs |-> s8.lines.rs, rw |-> s8.lines.rw,
                               d |-> DataNibble(s8.lines), delay |-> delay,
                               at |-> s.sinceLatch,
                               overlap |-> Len(s.pendingAck) + Len(s.timers)]),
            !.pendingAck = Append(@, [delay |-> delay, callback |-> callback,
                                      tx |-> Len(s.bus) + 1])]

\* history: a logical write (a byte or a bare nibble) handed to the queue
Issue(s, kind, rs, bits, delay, callback) ==
    [s EXCEPT !.issued = Append(@, [call |-> s.ctx, kind |-> kind, rs |-> rs,
                                    bits |-> bits, delay |-> delay,
                                    callback |-> callback,
                                    first |-> Len(s.enq) + 1])]

(***************************************************************************)
(* invokeCallback.  With sync set the callback is called on the spot; in   *)
(* this program such a call is always the last thing its caller does       *)
(* (done, and both exits of eachSeries' next), and the caller is itself    *)
(* the last thing the running handler does, so the call is recorded in     *)
(* calling and made by Return as soon as the handler has returned.         *)
(***************************************************************************)
invokeCallback(s, callback, error, value, sync) ==
    IF typeof(callback) # "function"
    THEN IF Truthy(error)
         THEN [s EXCEPT !.uncaught = TRUE]
         ELSE s
    ELSE IF sync
    THEN [s EXCEPT !.calling =
              Append(@, [callback |-> callback, error |-> error, value |-> value])]
    ELSE [s EXCEPT !.immediates =
              Append(@, [callback |-> callback, error |-> error, value |-> value])]

(***************************************************************************)
(* _write: enqueue one nibble request; start a drain loop when idle.       *)
(* The closure variable queue is the same array object as this._queue.     *)
(***************************************************************************)
\* faulty variant: the drain loop ends without resetting this._queue
_write_next_noReset(s, error) ==
    LET s1 == IF s.activeItem # <<>>
              THEN invokeCallback(s, s.activeItem[1].callback, error, Undefined, FALSE)
              ELSE s
        queue == IF s1._queue = <<>> THEN <<>> ELSE s1._queue[1]
    IN  IF queue # <<>>
        THEN LET item == Head(queue)
                 s2 == [s1 EXCEPT !.activeItem = <<item>>,
                                  !._queue = <<Tail(queue)>>]
             IN  _processWrite(s2, item.args[1], item.args[2], item.args[3],
                               item.args[4], Function("_write.next", 0))
        ELSE [s1 EXCEPT !.activeItem = <<>>,
                        !.loops = @ - 1]

\* faulty variant: the item callback is called directly, not through
\* setImmediate
_write_next_direct(s, error) ==
    LET s1 == IF s.activeItem # <<>>
              THEN invokeCallback(s, s.activeItem[1].callback, error, Undefined, TRUE)
              ELSE s
        queue == IF s1._queue = <<>> THEN <<>> ELSE s1._queue[1]
    IN  IF queue # <<>>
        THEN LET item == Head(queue)
                 s2 == [s1 EXCEPT !.activeItem = <<item>>,
                                  !._queue = <<Tail(queue)>>]
             IN  _processWrite(s2, item.args[1], item.args[2], item.args[3],
                               item.args[4], Function("_write.next", 0))
        ELSE [s1 EXCEPT !.activeItem = <<>>,
                        !._queue = <<>>,
                        !.loops = @ - 1]

\* faulty variant: the head of the queue is read but not removed
_write_next_noShift(s, error) ==
    LET s1 == IF s.activeItem # <<>>
              THEN invokeCallback(s, s.activeItem[1].callback, error, Undefined, FALSE)
              ELSE s
        queue == IF s1._queue = <<>> THEN <<>> ELSE s1._queue[1]
    IN  IF queue # <<>>
        THEN LET item == Head(queue)
                 s2 == [s1 EXCEPT !.activeItem = <<item>>]
             IN  _processWrite(s2, item.args[1], item.args[2], item.args[3],
                               item.args[4], Function("_write.next", 0))
        ELSE [s1 EXCEPT !.activeItem = <<>>,
                        !._queue = <<>>,
                        !.loops = @ - 1]

_write_next(s, error) ==
    LET s1 == IF s.activeItem # <<>>
              THEN invokeCallback(s, s.activeItem[1].callback, error, Undefined, FALSE)
              ELSE s
        queue == IF s1._queue = <<>> THEN <<>> ELSE s1._queue[1]
    IN  IF s1.uncaught /\ ~s.uncaught
        THEN s1
        ELSE IF queue # <<>>
        THEN LET item == Head(queue)
                 s2 == [s1 EXCEPT !.activeItem = <<item>>,
                                  !._queue = <<Tail(queue)>>]
             IN  _processWrite(s2, item.args[1], item.args[2], item.args[3],
                               item.args[4], Function("_write.next", 0))
        ELSE [s1 EXCEPT !.activeItem = <<>>,
                        !._queue = <<>>,
                        !.loops = @ - 1]

\* faulty variant: a busy driver also re-enters the drain loop
_write_reenter(s, rs, rw, bits, delay, callback) ==
    LET cb == IF typeof(delay) = "function" THEN delay ELSE callback
        dl == IF typeof(delay) = "function" THEN Undefined ELSE delay
        item == [args |-> <<rs, rw, bits, dl>>, callback |-> cb]
        s1 == [s EXCEPT !.enq = Append(@, item)]
    IN  IF s1._queue # <<>>
        THEN _write_next([s1 EXCEPT !._queue = <<Append(@[1], item)>>], Undefined)
        ELSE _write_next([s1 EXCEPT !._queue = <<(<<item>>)>>,
                                    !.activeItem = <<>>,
                                    !.loops = @ + 1],
                         Undefined)

\* faulty variant: a busy driver puts the request at the front of the backlog
_write_unshift(s, rs, rw, bits, delay, callback) ==
    LET cb == IF typeof(delay) = "function" THEN delay ELSE callback
        dl == IF typeof(delay) = "function" THEN Undefined ELSE delay
        item == [args |-> <<rs, rw, bits, dl>>, callback |-> cb]
        s1 == [s EXCEPT !.enq = Append(@, item)]
    IN  IF s1._queue # <<>>
        THEN [s1 EXCEPT !._queue = <<(<<item>> \o @[1])>>]
        ELSE _write_next([s1 EXCEPT !._queue = <<(<<item>>)>>,
                                    !.activeItem = <<>>,
                                    !.loops = @ + 1],
                         Undefined)

\* faulty variant: an idle driver queues the request without starting it
_write_noStart(s, rs, rw, bits, delay, callback) ==
    LET cb == IF typeof(delay) = "function" THEN delay ELSE callback
        dl == IF typeof(delay) = "function" THEN Undefined ELSE delay
        item == [args |-> <<rs, rw, bits, dl>>, callback |-> cb]
        s1 == [s EXCEPT !.enq = Append(@, item)]
    IN  IF s1._queue # <<>>
        THEN [s1 EXCEPT !._queue = <<Append(@[1], item)>>]
        ELSE [s1 EXCEPT !._queue = <<(<<item>>)>>,
                        !.activeItem = <<>>,
                        !.loops = @ + 1]

_write(s, rs, rw, bits, delay, callback) ==
    LET cb == IF typeof(delay) = "function" THEN delay ELSE callback
        dl == IF typeof(delay) = "function" THEN Undefined ELSE delay
        item == [args |-> <<rs, rw, bits, dl>>, callback |-> cb]
        s1 == [s EXCEPT !.enq = Append(@, item)]
    IN  IF s1._queue # <<>>
        THEN [s1 EXCEPT !._queue = <<Append(@[1], item)>>]
        ELSE _write_next([s1 EXCEPT !._queue = <<(<<item>>)>>,
                                    !.activeItem = <<>>,
                                    !.loops = @ + 1],
                         Undefined)

\* faulty variant: the low nibble is sent first
_writeInstruction_lowFirst(s, bits, delay, callback) ==
    LET cb == IF typeof(delay) = "function" THEN delay ELSE callback
        dl == IF typeof(delay) = "function" THEN Undefined ELSE delay
        s0 == Issue(s, "byte", Register.instruction, bits, dl, cb)
        s1 == _write(s0, Register.instruction, ReadWrite.write, bits, dl, Undefined)
    IN  _write(s1, Register.instruction, ReadWrite.write, Shr(bits, 4), dl, cb)

\* faulty variant: the delay is given to the low nibble only
_writeInstruction_lowDelay(s, bits, delay, callback) ==
    LET cb == IF typeof(delay) = "function" THEN delay ELSE callback
        dl == IF typeof(delay) = "function" THEN Undefined ELSE delay
        s0 == Issue(s, "byte", Register.instruction, bits, dl, cb)
        s1 == _write(s0, Register.instruction, ReadWrite.write, Shr(bits, 4),
                     Undefined, Undefined)
    IN  _write(s1, Register.instruction, ReadWrite.write, bits, dl, cb)

_writeInstruction(s, bits, delay, callback) ==
    LET cb == IF typeof(delay) = "function" THEN delay ELSE callback
        dl == IF typeof(delay) = "function" THEN Undefined ELSE delay
        s0 == Issue(s, "byte", Register.instruction, bits, dl, cb)
        s1 == _write(s0, Register.instruction, ReadWrite.write, Shr(bits, 4),
                     dl, Undefined)
    IN  _write(s1, Register.instruction, ReadWrite.write, bits, dl, cb)

\* faulty variant: the mask is assigned instead of or-ed
_setDisplayControl_assign(s, control, toggle, callback) ==
    LET s1 == IF toggle
              THEN [s EXCEPT !._displayControl = control]
              ELSE [s EXCEPT !._displayControl = BitClear(@, control)]
    IN  _writeInstruction(s1,
            BitOr(Instruction.setDisplayControl, s1._displayControl),
            callback, Undefined)

\* faulty variant: the instruction is built from the mask before the update
_setDisplayControl_stale(s, control, toggle, callback) ==
    LET s1 == IF toggle
              THEN [s EXCEPT !._displayControl = BitOr(@, control)]
              ELSE [s EXCEPT !._displayControl = BitClear(@, control)]
    IN  _writeInstruction(s1,
            BitOr(Instruction.setDisplayControl, s._displayControl),
            callback, Undefined)

_setDisplayControl(s, control, toggle, callback) ==
    LET s1 == IF toggle
              THEN [s EXCEPT !._displayControl = BitOr(@, control)]
              ELSE [s EXCEPT !._displayControl = BitClear(@, control)]
    IN  _writeInstruction(s1,
            BitOr(Instruction.setDisplayControl, s1._displayControl),
            callback, Undefined)

clear(s, callback) ==
    _writeInstruction(s, Instruction.clearDisplay, Number(ClearDelay), callback)

blinkOn(s, callback) == _setDisplayControl(s, DisplayControl.blink, TRUE, callback)

blinkOff(s, callback) == _setDisplayControl(s, DisplayControl.blink, FALSE, callback)

cursorOn(s, callback) == _setDisplayControl(s, DisplayControl.cursor, TRUE, callback)

cursorOff(s, callback) == _setDisplayControl(s, DisplayControl.cursor, FALSE, callback)

turnOn(s, callback) == _setDisplayControl(s, DisplayControl.display, TRUE, callback)

turnOff(s, callback) == _setDisplayControl(s, DisplayControl.display, FALSE, callback)

\* faulty variant: the row table of a 16-column display
setCursor_16x4(s, x, y, callback) ==
    LET bits == BitOr(Instruction.setDdramAddress, <<0, 64, 16, 80>>[y + 1] + x)
    IN  _writeInstruction(s, bits, callback, Undefined)

setCursor(s, x, y, callback) ==
    LET bits == BitOr(Instruction.setDdramAddress, ys[y + 1] + x)
    IN  _writeInstruction(s, bits, callback, Undefined)

(***************************************************************************)
(* print and eachSeries.  values[c] is the array eachSeries of call c      *)
(* still has to hand out; its final callback is the one print was given.   *)
(***************************************************************************)
\* faulty variant: the continuation is attached to the high nibble
print_handler_early(s, char, next) ==
    LET bits == char
        s0 == Issue(s, "byte", Register.data, bits, Undefined, next)
        s1 == _write(s0, Register.data, ReadWrite.write, Shr(bits, 4),
                     next, Undefined)
    IN  _write(s1, Register.data, ReadWrite.write, bits, Undefined, Undefined)

\* faulty variant: the handler calls next at once instead of handing it to
\* the queue
print_handler_noWait(s, char, next) ==
    LET bits == char
        s0 == Issue(s, "byte", Register.data, bits, Undefined, Undefined)
        s1 == _write(s0, Register.data, ReadWrite.write, Shr(bits, 4),
                     Undefined, Undefined)
        s2 == _write(s1, Register.data, ReadWrite.write, bits, Undefined, Undefined)
    IN  invokeCallback(s2, next, Undefined, Undefined, TRUE)

print_handler(s, char, next) ==
    LET bits == char
        s0 == Issue(s, "byte", Register.data, bits, Undefined, next)
        s1 == _write(s0, Register.data, ReadWrite.write, Shr(bits, 4),
                     Undefined, Undefined)
    IN  _write(s1, Register.data, ReadWrite.write, bits, next, Undefined)

\* faulty variant: the final callback goes through setImmediate
eachSeries_next_deferred(s, c, error) ==
    IF Truthy(error)
    THEN invokeCallback(s, s.calls[c].callback, error, Undefined, FALSE)
    ELSE IF Len(s.values[c]) = 0
    THEN invokeCallback(s, s.calls[c].callback, Undefined, Undefined, FALSE)
    ELSE print_handler([s EXCEPT !.values[c] = Tail(@)], Head(s.values[c]),
                       Function("eachSeries.next", c))

eachSeries_next(s, c, error) ==
    IF Truthy(error)
    THEN invokeCallback(s, s.calls[c].callback, error, Undefined, TRUE)
    ELSE IF Len(s.values[c]) = 0
    THEN invokeCallback(s, s.calls[c].callback, Undefined, Undefined, TRUE)
    ELSE print_handler([s EXCEPT !.values[c] = Tail(@)], Head(s.values[c]),
                       Function("eachSeries.next", c))

eachSeries(s, c) == eachSeries_next(s, c, Undefined)

print(s, text, callback) ==
    eachSeries([s EXCEPT !.values[s.ctx] = text], s.ctx)

\* a caller's callback runs; the one given to attach is the framework's,
\* which hands the device to the application once attach has finished
Notify(s, c, error) ==
    [s EXCEPT !.notes = Append(@, [call |-> c, error |-> error]),
              !.phase = IF s.calls[c].op = "attach" /\ @ = "attached"
                        THEN "ready" ELSE @]

\* callback(error, value) for the functions that are passed around
Call(s, callback, error, value) ==
    IF callback.fn = "_write.next"
    THEN _write_next(s, error)
    ELSE IF callback.fn = "eachSeries.next"
    THEN eachSeries_next([s EXCEPT !.ctx = callback.id], callback.id, error)
    ELSE Notify(s, callback.id, error)

\* the handler returns: the synchronous calls it ended with are made
RECURSIVE Return(_)
Return(s) ==
    IF s.calling = <<>> THEN s
    ELSE LET m == Head(s.calling)
         IN  Return(Call([s EXCEPT !.calling = Tail(@)],
                         m.callback, m.error, m.value))

\* the step a handler makes: it runs to its end, then the state is stored
Becomes(s) == Assign(Return(s))

\* done() inside _processWrite
done(s, callback) == invokeCallback(s, callback, Undefined, Undefined, TRUE)

\* faulty variant: the 4-bit function set is sent before the bare nibble
attach_reordered(s, next) ==
    LET s0 == [s EXCEPT !._displayControl = 0]
        s1 == LineWrite(s0, "p3", 1)
        s2 == _writeInstruction(s1, 56, Undefined, Undefined)
        s3 == _writeInstruction(s2, 40, Undefined, Undefined)
        s4 == _write(Issue(s3, "nibble", Register.instruction, 2, Undefined, Undefined),
                     Register.instruction, ReadWrite.write, 2, Undefined, Undefined)
        s5 == turnOn(s4, Undefined)
        s6 == clear(s5, Undefined)
        s7 == _writeInstruction(s6,
                  BitOr(Instruction.setEntryMode, EntryMode.increment),
                  Undefined, Undefined)
    IN  _writeInstruction(s7, Instruction.returnHome, next, Undefined)

\* faulty variant: the bare 4-bit function-set nibble is left out
attach_noNibble(s, next) ==
    LET s0 == [s EXCEPT !._displayControl = 0]
        s1 == LineWrite(s0, "p3", 1)
        s2 == _writeInstruction(s1, 56, Undefined, Undefined)
        s4 == _writeInstruction(s2, 40, Undefined, Undefined)
        s5 == turnOn(s4, Undefined)
        s6 == clear(s5, Undefined)
        s7 == _writeInstruction(s6,
                  BitOr(Instruction.setEntryMode, EntryMode.increment),
                  Undefined, Undefined)
    IN  _writeInstruction(s7, Instruction.returnHome, next, Undefined)

attach(s, next) ==
    LET s0 == [s EXCEPT !._displayControl = 0]
        s1 == LineWrite(s0, "p3", 1)
        s2 == _writeInstruction(s1, 56, Undefined, Undefined)
        s3 == _write(Issue(s2, "nibble", Register.instruction, 2, Undefined, Undefined),
                     Register.instruction, ReadWrite.write, 2, Undefined, Undefined)
        s4 == _writeInstruction(s3, 40, Undefined, Undefined)
        s5 == turnOn(s4, Undefined)
        s6 == clear(s5, Undefined)
        s7 == _writeInstruction(s6,
                  BitOr(Instruction.setEntryMode, EntryMode.increment),
                  Undefined, Undefined)
    IN  _writeInstruction(s7, Instruction.returnHome, next, Undefined)

detach(s) == turnOff(s, Undefined)

(***************************************************************************)
(* Initial state: the driver object exists, attach has not run yet.        *)
(***************************************************************************)
Init ==
    /\ phase = "new"
    /\ _displayControl = NotSet
    /\ lines = [rs |-> 0, rw |-> 0, e |-> 0, p3 |-> 0,
                d4 |-> 0, d5 |-> 0, d6 |-> 0, d7 |-> 0]
    /\ _queue = <<>>
    /\ activeItem = <<>>
    /\ pendingAck = <<>>
    /\ timers = <<>>
    /\ immediates = <<>>
    /\ values = <<>>
    /\ uncaught = FALSE
    /\ sinceLatch = 0
    /\ wrote = <<>>
    /\ loops = 0
    /\ calls = <<>>
    /\ issued = <<>>
    /\ enq = <<>>
    /\ bus = <<>>
    /\ faults = {}
    /\ fired = <<>>
    /\ notes = <<>>

\* the texts handed to print: "", "H", "H\u00A5", ...
Texts == {SubSeq(Sample, 1, n) : n \in 0 .. MaxTextLen}

\* the callback the application hands to public call number c (attach and
\* detach make their inner calls without one)
Callbacks(c) == {Function("callback", c)}

\* history: public call number Len(calls) + 1 begins
Enter(op, x, y, text, callback) ==
    [Now EXCEPT !.calls = Append(@, [op |-> op, x |-> x, y |-> y, text |-> text,
                                     callback |-> callback,
                                     mask |-> _displayControl,
                                     busy |-> _queue # <<>>]),
                !.values = Append(@, <<>>),
                !.ctx = Len(calls) + 1]

\* the public calls work from the moment attach has set the fields up, also
\* before attach has reported completion, until detach
CanCall == phase \in {"attached", "ready"} /\ Len(calls) < MaxCalls

(***************************************************************************)
(* Public calls.                                                           *)
(***************************************************************************)
DoAttach ==
    /\ phase = "new"
    /\ LET next == Function("callback", 1)
       IN  Becomes(attach([Enter("attach", 0, 0, <<>>, next)
                              EXCEPT !.phase = "attached"], next))

DoDetach ==
    /\ CanCall
    /\ Becomes(detach([Enter("detach", 0, 0, <<>>, Undefined)
                          EXCEPT !.phase = "detached"]))

DoClear ==
    /\ CanCall
    /\ \E cb \in Callbacks(Len(calls) + 1) :
          Becomes(clear(Enter("clear", 0, 0, <<>>, cb), cb))

Prints == {c \in 1 .. Len(calls) : calls[c].op = "print"}

DoPrint ==
    /\ CanCall
    /\ Cardinality(Prints) < MaxPrints
    /\ \E cb \in Callbacks(Len(calls) + 1), text \in Texts :
          Becomes(print(Enter("print", 0, 0, text, cb), text, cb))

DoBlinkOn ==
    /\ CanCall
    /\ \E cb \in Callbacks(Len(calls) + 1) :
          Becomes(blinkOn(Enter("blinkOn", 0, 0, <<>>, cb), cb))

DoBlinkOff ==
    /\ CanCall
    /\ \E cb \in Callbacks(Len(calls) + 1) :
          Becomes(blinkOff(Enter("blinkOff", 0, 0, <<>>, cb), cb))

DoCursorOn ==
    /\ CanCall
    /\ \E cb \in Callbacks(Len(calls) + 1) :
          Becomes(cursorOn(Enter("cursorOn", 0, 0, <<>>, cb), cb))

DoCursorOff ==
    /\ CanCall
    /\ \E cb \in Callbacks(Len(calls) + 1) :
          Becomes(cursorOff(Enter("cursorOff", 0, 0, <<>>, cb), cb))

DoTurnOn ==
    /\ CanCall
    /\ \E cb \in Callbacks(Len(calls) + 1) :
          Becomes(turnOn(Enter("turnOn", 0, 0, <<>>, cb), cb))

DoTurnOff ==
    /\ CanCall
    /\ \E cb \in Callbacks(Len(calls) + 1) :
          Becomes(turnOff(Enter("turnOff", 0, 0, <<>>, cb), cb))

DoSetCursor ==
    /\ CanCall
    /\ \E cb \in Callbacks(Len(calls) + 1), x \in Columns, y \in Rows :
          Becomes(setCursor(Enter("setCursor", x, y, <<>>, cb), x, y, cb))

\* setCursor over the whole column range, once, on a ready driver
DoSetCursorWide ==
    /\ phase = "ready"
    /\ Len(calls) = 1
    /\ \E cb \in Callbacks(2), x \in 0 .. MaxColumn, y \in 0 .. 3 :
          Becomes(setCursor(Enter("setCursor", x, y, <<>>, cb), x, y, cb))

(***************************************************************************)
(* Deferred work.                                                          *)
(***************************************************************************)
\* faulty variant: completion is signalled without waiting for the settle delay
AckCallback_noWait(s, p) == done(s, p.callback)

\* the callback given to this._e.write(0, ...) in _processWrite; it takes
\* no parameters, so whatever the line reports is dropped
AckCallback(s, p) ==
    IF typeof(p.delay) = "number"
    THEN [s EXCEPT !.timers = Append(@, [remaining |-> p.delay.num,
                                         callback |-> p.callback])]
    ELSE done(s, p.callback)

\* the enable line reports its falling edge to the callback of
\* this._e.write(0, ...); error is what the line passes to that callback
Acknowledge(error) ==
    /\ pendingAck # <<>>
    /\ LET p == Head(pendingAck)
           s == [Now EXCEPT !.pendingAck = Tail(@),
                            !.sinceLatch = 0,
                            !.faults = IF Truthy(error) THEN @ \cup {p.tx} ELSE @]
       IN  Becomes(AckCallback(s, p))

\* the write of the enable line succeeded
Ack == Acknowledge(Undefined)

\* the write of the enable line failed
AckFault ==
    /\ Cardinality(faults) < MaxFaults
    /\ Acknowledge(LineError)

\* the time until the earliest running timer expires
RECURSIVE Earliest(_)
Earliest(q) ==
    IF Len(q) = 1 THEN q[1].remaining
    ELSE Min(q[1].remaining, Earliest(Tail(q)))

\* time passes until the earliest running timer is due; the driver observes
\* time through its timers only
Tick ==
    /\ timers # <<>>
    /\ Earliest(timers) > 0
    /\ LET d == Earliest(timers)
       IN  /\ timers' = [i \in 1 .. Len(timers) |->
                           [timers[i] EXCEPT !.remaining = @ - d]]
           /\ sinceLatch' = sinceLatch + d
    /\ UNCHANGED <<phase, _displayControl, lines, _queue, activeItem,
                   pendingAck, immediates, values, uncaught, wrote, loops,
                   calls, issued, enq, bus, faults, fired, notes>>

RemoveAt(q, i) == [j \in 1 .. Len(q) - 1 |-> IF j < i THEN q[j] ELSE q[j + 1]]

\* a timer set by setTimeout(done, delay) expires
Timeout ==
    \E i \in 1 .. Len(timers) :
        /\ timers[i].remaining = 0
        /\ Becomes(done([Now EXCEPT !.timers = RemoveAt(@, i)],
                        timers[i].callback))

\* the oldest setImmediate entry runs
RunImmediate ==
    /\ immediates # <<>>
    /\ LET m == Head(immediates)
           s == [Now EXCEPT !.immediates = Tail(@),
                            !.fired = Append(@, [callback |-> m.callback,
                                                 error |-> m.error])]
       IN  Becomes(Call(s, m.callback, m.error, m.value))

\* what the runtime does on its own
Deferred ==
    \/ Ack
    \/ Tick
    \/ Timeout
    \/ RunImmediate

Next ==
    \/ DoAttach
    \/ DoDetach
    \/ DoClear
    \/ DoPrint
    \/ DoBlinkOn
    \/ DoBlinkOff
    \/ DoCursorOn
    \/ DoCursorOff
    \/ DoTurnOn
    \/ DoTurnOff
    \/ DoSetCursor
    \/ Deferred

Spec == Init /\ [][Next]_vars

\* the driver on lines that may fail, under attach, clear, print and detach
NextFault ==
    \/ DoAttach
    \/ DoDetach
    \/ DoClear
    \/ DoPrint
    \/ Deferred
    \/ AckFault

SpecFault == Init /\ [][NextFault]_vars

\* attach followed by one setCursor, over every column and row
NextCursor ==
    \/ DoAttach
    \/ DoSetCursorWide
    \/ Deferred

SpecCursor == Init /\ [][NextCursor]_vars

(***************************************************************************)
(* Properties.                                                             *)
(***************************************************************************)
InFlight == Len(pendingAck) + Len(timers)

\* the number of transactions whose completion has been signalled
Completed == Len(bus) - InFlight

\* C1 - single flight: at most one nibble transaction is in flight at any
\* time, and no transaction was started on the lines while an earlier one
\* had not yet signalled completion.
C1_SingleFlight ==
    /\ InFlight <= 1
    /\ \A i \in 1 .. Len(bus) : bus[i].overlap = 0

\* a call was made while the queue was busy, and its requests wait behind a
\* transaction that is in flight
C1_Witness ==
    /\ \E c \in 1 .. Len(calls) : calls[c].busy
    /\ InFlight = 1
    /\ _queue # <<>> /\ Len(_queue[1]) >= 2

HasCallback(item) == typeof(item.callback) = "function"

\* the callbacks of the items that carry one, in _write order
RECURSIVE CallbacksOf(_)
CallbacksOf(q) ==
    IF q = <<>> THEN <<>>
    ELSE IF HasCallback(Head(q))
    THEN <<Head(q).callback>> \o CallbacksOf(Tail(q))
    ELSE CallbacksOf(Tail(q))

\* C2 - FIFO: the transactions started on the bus are, position by position,
\* the requests in the order _write received them, and the item callbacks
\* invoked so far are, in order, the first callbacks in that same order.
C2_Fifo ==
    /\ Len(bus) <= Len(enq)
    /\ \A i \in 1 .. Len(bus) :
          /\ bus[i].rs = enq[i].args[1]
          /\ bus[i].rw = enq[i].args[2]
          /\ bus[i].d = enq[i].args[3] % 16
          /\ bus[i].delay = enq[i].args[4]
    /\ LET expected == CallbacksOf(enq)
       IN  /\ Len(fired) <= Len(expected)
           /\ \A k \in 1 .. Len(fired) : fired[k].callback = expected[k]

\* the callbacks of two calls have run, the later call made while the queue
\* was still busy with the earlier one
C2_Witness ==
    /\ Len(calls) >= 3
    /\ calls[3].busy
    /\ \E j, k \in 1 .. Len(fired) :
          j < k /\ fired[j].callback.id = 2 /\ fired[k].callback.id = 3

\* number of queue items a logical write takes
Size(w) == IF w.kind = "byte" THEN 2 ELSE 1

\* C3 - nibble-pair atomicity: the requests are exactly the logical writes
\* laid end to end, and each byte shows on the bus as two adjacent
\* transactions, bits 7-4 then bits 3-0, with the byte's register selector.
C3_NibblePair ==
    /\ \A k \in 1 .. Len(issued) :
          issued[k].first =
              IF k = 1 THEN 1 ELSE issued[k - 1].first + Size(issued[k - 1])
    /\ Len(enq) =
          IF issued = <<>> THEN 0
          ELSE issued[Len(issued)].first + Size(issued[Len(issued)]) - 1
    /\ \A k \in 1 .. Len(issued) :
          LET w == issued[k]
              f == w.first
          IN  IF w.kind = "byte"
              THEN /\ Len(bus) >= f =>
                        bus[f].rs = w.rs /\ bus[f].d = (w.bits \div 16) % 16
                   /\ Len(bus) >= f + 1 =>
                        bus[f + 1].rs = w.rs /\ bus[f + 1].d = w.bits % 16
              ELSE Len(bus) >= f =>
                        bus[f].rs = w.rs /\ bus[f].d = w.bits % 16

\* the character 0xA5 went out as 0xA then 0x5 on the data register, in a
\* run where a call was made while the queue was busy
C3_Witness ==
    /\ \E c \in 1 .. Len(calls) : c > 1 /\ calls[c].busy
    /\ \E k \in 1 .. Len(issued) :
          /\ issued[k].bits = 165
          /\ Len(bus) >= issued[k].first + 1
          /\ bus[issued[k].first].d = 10 /\ bus[issued[k].first].rs = 1
          /\ bus[issued[k].first + 1].d = 5 /\ bus[issued[k].first + 1].rs = 1

\* 0x38, bare 0x2, 0x28, 0x0C, 0x01, 0x06, 0x02 as nibbles
AttachStream == <<3, 8, 2, 2, 8, 0, 12, 0, 1, 0, 6, 0, 2>>

\* C4 - attach stream: the bus starts with the attach sequence, nibble by
\* nibble on the instruction register, and attach's callback runs only
\* after the last nibble of return-home has completed.
C4_AttachStream ==
    /\ [](\A i \in 1 .. Len(bus) :
            i <= Len(AttachStream) =>
                bus[i].d = AttachStream[i] /\ bus[i].rs = 0 /\ bus[i].rw = 0)
    /\ [][\A j \in 1 .. Len(notes') :
            (j > Len(notes) /\ notes'[j].call = 1) =>
                Completed >= Len(AttachStream)]_vars

\* attach has reported completion and a later call has reached the bus
C4_Witness ==
    /\ \E j \in 1 .. Len(notes) : notes[j].call = 1
    /\ Len(bus) > Len(AttachStream)

IsClear(w) ==
    w.kind = "byte" /\ w.rs = Register.instruction /\ w.bits = Instruction.clearDisplay

\* C5 - clear: every clear instruction is enqueued as 0x01 with a settle
\* delay of at least 10 on its final nibble, and the transaction after that
\* nibble starts no sooner than 10 time units after the nibble was latched.
C5_ClearSettle ==
    /\ \A c \in 1 .. Len(calls) :
          calls[c].op = "clear" =>
              \E k \in 1 .. Len(issued) : issued[k].call = c /\ IsClear(issued[k])
    /\ \A k \in 1 .. Len(issued) :
          IsClear(issued[k]) =>
              LET low == issued[k].first + 1
              IN  /\ typeof(enq[low].args[4]) = "number"
                  /\ enq[low].args[4].num >= 10
                  /\ enq[low].args[3] % 16 = 1
                  /\ Len(bus) > low => bus[low + 1].at >= 10

\* a request of a later call started right after a clear called by the
\* application
C5_Witness ==
    \E k \in 1 .. Len(issued) :
        /\ IsClear(issued[k])
        /\ issued[k].call > 1
        /\ Len(bus) > issued[k].first + 1
        /\ \E m \in 1 .. Len(issued) :
              issued[m].first = issued[k].first + 2 /\ issued[m].call > issued[k].call

\* positions in q of the items that carry a callback
RECURSIVE CallbackIndexes(_, _)
CallbackIndexes(q, i) ==
    IF i > Len(q) THEN <<>>
    ELSE IF HasCallback(q[i])
    THEN <<i>> \o CallbackIndexes(q, i + 1)
    ELSE CallbackIndexes(q, i + 1)

\* C6 - failure isolation: an item callback receives an error exactly when
\* a line write of that item's own transaction faulted.
C6_FailureIsolation ==
    \A k \in 1 .. Len(fired) :
        Truthy(fired[k].error) <=> CallbackIndexes(enq, 1)[k] \in faults

IsReturnHome(w) ==
    w.kind = "byte" /\ w.rs = Register.instruction /\ w.bits = Instruction.returnHome

\* C7 - return-home settle delay: every return-home instruction is enqueued
\* with a settle delay of at least 10 time units on its final nibble.
C7_ReturnHomeSettle ==
    \A k \in 1 .. Len(issued) :
        IsReturnHome(issued[k]) =>
            LET low == issued[k].first + 1
            IN  /\ typeof(enq[low].args[4]) = "number"
                /\ enq[low].args[4].num >= 10

\* the characters call c has handed to the queue so far
PrintWrites(c) ==
    SelectSeq(issued, LAMBDA w : w.call = c /\ w.rs = Register.data)

NotesOf(c) == {j \in 1 .. Len(notes) : notes[j].call = c}

Quiescent == InFlight = 0 /\ immediates = <<>>

\* what holds of print call c in every state
PrintState(c) ==
    LET ws == PrintWrites(c)
    IN  /\ [i \in 1 .. Len(ws) |-> ws[i].bits] \o values[c] = calls[c].text
        /\ \A i \in 1 .. Len(ws) :
              /\ ws[i].kind = "byte"
              /\ Len(bus) >= ws[i].first + 1 =>
                    /\ bus[ws[i].first].rs = 1
                    /\ bus[ws[i].first].d = (ws[i].bits \div 16) % 16
                    /\ bus[ws[i].first + 1].rs = 1
                    /\ bus[ws[i].first + 1].d = ws[i].bits % 16
        /\ Cardinality(NotesOf(c)) <= 1
        /\ NotesOf(c) # {} => values[c] = <<>>
        /\ Quiescent => Cardinality(NotesOf(c)) = 1

\* what holds of print call c in every step: a character is handed to the
\* queue, and the callback is run, only when the low nibble of the
\* character before has completed
PrintStep(c) ==
    LET ws == PrintWrites(c)
        last == ws[Len(ws)].first + 1
    IN  /\ (c <= Len(calls) /\ Len(PrintWrites(c)') > Len(ws) /\ ws # <<>>) =>
              Completed >= last
        /\ (c <= Len(calls) /\ NotesOf(c)' # NotesOf(c) /\ ws # <<>>) =>
              Completed >= last

\* C8 - print: the characters go out in source order as data-register
\* nibble pairs, each one enqueued only after the low nibble of the one
\* before has completed; the callback runs at most once, only after the low
\* nibble of the last character has completed, and has run once when the
\* driver has no work left.
C8_Print ==
    /\ [](\A c \in Prints : PrintState(c))
    /\ [][\A c \in Prints : PrintStep(c)]_vars

\* a print of two characters has finished while another call was made
\* during it
C8_Witness ==
    \E c \in 1 .. Len(calls) :
        /\ calls[c].op = "print"
        /\ Len(calls[c].text) = 2
        /\ NotesOf(c) # {}
        /\ c < Len(calls) /\ calls[c + 1].busy

ToggleOps == {"blinkOn", "blinkOff", "cursorOn", "cursorOff", "turnOn", "turnOff"}

OwnBit(op) ==
    IF op \in {"blinkOn", "blinkOff"} THEN 1
    ELSE IF op \in {"cursorOn", "cursorOff"} THEN 2
    ELSE 4

HasBit(m, b) == (m \div b) % 2 = 1

\* the mask a call is to leave, given the mask it found
MaskExpected(c) ==
    LET op == calls[c].op
        m == calls[c].mask
    IN  IF op = "attach" THEN 4
        ELSE IF op \in {"blinkOn", "cursorOn", "turnOn"}
        THEN IF HasBit(m, OwnBit(op)) THEN m ELSE m + OwnBit(op)
        ELSE IF op \in {"blinkOff", "cursorOff", "turnOff", "detach"}
        THEN IF HasBit(m, OwnBit(op)) THEN m - OwnBit(op) ELSE m
        ELSE m

\* the mask as call c left it
MaskAfter(c) == IF c < Len(calls) THEN calls[c + 1].mask ELSE _displayControl

\* the set-display-control instructions call c has handed to the queue
ControlWrites(c) ==
    SelectSeq(issued, LAMBDA w : /\ w.call = c
                                 /\ w.rs = Register.instruction
                                 /\ w.kind = "byte"
                                 /\ w.bits \div 8 = 1)

\* C9 - display-control composition: a toggle changes only its own bit of
\* the mask and issues the single instruction 0x08 | mask with the whole
\* new mask; blinkOn then cursorOn from mask 0x04 issue 0x0D then 0x0F; no
\* other call and no deferred step changes the mask.
C9_DisplayControl ==
    \A c \in 1 .. Len(calls) :
        /\ MaskAfter(c) = MaskExpected(c)
        /\ calls[c].op \in ToggleOps =>
              /\ Len(SelectSeq(issued, LAMBDA w : w.call = c)) = 1
              /\ Len(ControlWrites(c)) = 1
              /\ ControlWrites(c)[1].bits = 8 + MaskExpected(c)
        /\ calls[c].op \in {"clear", "print", "setCursor"} =>
              ControlWrites(c) = <<>>
        /\ (/\ calls[c].op = "blinkOn"
            /\ calls[c].mask = 4
            /\ c < Len(calls)
            /\ calls[c + 1].op = "cursorOn") =>
              /\ ControlWrites(c)[1].bits = 13
              /\ ControlWrites(c + 1)[1].bits = 15

\* blinkOn then cursorOn on a display that is on, both on the bus as
\* 0x0D then 0x0F
C9_Witness ==
    /\ Len(calls) = 3
    /\ calls[2].op = "blinkOn" /\ calls[2].mask = 4
    /\ calls[3].op = "cursorOn"
    /\ Len(bus) = 17
    /\ <<bus[14].d, bus[15].d, bus[16].d, bus[17].d>> = <<0, 13, 0, 15>>

\* the row base addresses of the claim
RowBase == <<0, 64, 20, 84>>

\* v with bit 7 set, for v in 0 .. 255
With0x80(v) == IF (v \div 128) % 2 = 1 THEN v ELSE v + 128

\* C10 - setCursor(x, y) issues exactly one instruction, the byte
\* 0x80 | (base[y] + x), which is what reaches the bus as two nibbles;
\* setCursor(2, 1) issues 0xC2.
C10_SetCursor ==
    \A c \in 1 .. Len(calls) :
        calls[c].op = "setCursor" =>
            LET ws == SelectSeq(issued, LAMBDA w : w.call = c)
                byte == With0x80(RowBase[calls[c].y + 1] + calls[c].x)
            IN  /\ Len(ws) = 1
                /\ ws[1].kind = "byte"
                /\ ws[1].rs = 0
                /\ ws[1].bits = byte
                /\ Len(bus) >= ws[1].first + 1 =>
                      16 * bus[ws[1].first].d + bus[ws[1].first + 1].d = byte
                /\ (calls[c].x = 2 /\ calls[c].y = 1) => ws[1].bits = 194

\* setCursor(2, 1) has gone out as 0xC then 0x2
C10_Witness ==
    \E c \in 1 .. Len(calls) :
        /\ calls[c].op = "setCursor" /\ calls[c].x = 2 /\ calls[c].y = 1
        /\ Len(bus) = 15
        /\ bus[14].d = 12 /\ bus[15].d = 2 /\ bus[14].rs = 0

(***************************************************************************)
(* The driver under a runtime that delivers what it owes: every line       *)
(* acknowledgement arrives, time passes, every timer and every             *)
(* setImmediate entry runs.  Each conjunct is WF_vars(A) with              *)
(* ENABLED <<A>>_vars written out as the guard of A (each of these         *)
(* actions changes a history variable whenever its guard holds).           *)
(***************************************************************************)
Fairness ==
    /\ []<>(pendingAck = <<>>) \/ []<><<Ack>>_vars
    /\ []<>(timers = <<>> \/ Earliest(timers) = 0) \/ []<><<Tick>>_vars
    /\ []<>(\A i \in 1 .. Len(timers) : timers[i].remaining # 0)
          \/ []<><<Timeout>>_vars
    /\ []<>(immediates = <<>>) \/ []<><<RunImmediate>>_vars

SpecLive == Init /\ [][Next]_vars /\ Fairness

\* nothing is owed: the driver is idle, every request handed to _write has
\* been started on the bus and has completed, every item callback has run
Drained ==
    /\ _queue = <<>>
    /\ InFlight = 0
    /\ Len(bus) = Len(enq)
    /\ Len(fired) = Len(CallbacksOf(enq))
    /\ immediates = <<>>

\* C11 - liveness: when acknowledgements arrive and timers fire, the driver
\* always comes back to the state where every request handed to _write has
\* been executed on the bus, every item callback has been invoked and
\* _queue is undefined again; requests and callbacks are never taken back,
\* so each single request is executed and notified; and a request handed to
\* an idle driver starts a new drain: its transaction starts in that step.
C11_Liveness ==
    /\ []<>Drained
    /\ [][/\ Len(enq') >= Len(enq) /\ SubSeq(enq', 1, Len(enq)) = enq
          /\ Len(bus') >= Len(bus) /\ SubSeq(bus', 1, Len(bus)) = bus
          /\ Len(fired') >= Len(fired)
          /\ Completed' >= Completed
          /\ (_queue = <<>> /\ Len(enq') > Len(enq)) =>
                /\ Len(bus') = Len(bus) + 1
                /\ bus'[Len(bus') ].d = enq'[Len(enq) + 1].args[3] % 16
                /\ loops' = 1]_vars

\* a call found the driver idle after an earlier drain had ended, and its
\* requests have been executed and its callback run
C11_Witness ==
    \E c \in 2 .. Len(calls) :
        /\ ~calls[c].busy
        /\ calls[c].op = "clear"
        /\ NotesOf(c) # {}
        /\ Drained

\* the instruction bytes handed to _writeInstruction with a numeric delay
DelayedBytes ==
    {k \in 1 .. Len(issued) :
        /\ issued[k].kind = "byte"
        /\ issued[k].rs = Register.instruction
        /\ typeof(issued[k].delay) = "number"}

\* C12 as stated - settle-delay placement: of an instruction byte written
\* with a settle delay d, the high-nibble request is enqueued with no delay
\* and no callback, the low-nibble request with d and the caller's callback.
C12_DelayOnLowOnly ==
    \A k \in DelayedBytes :
        LET f == issued[k].first
        IN  /\ enq[f].args[4] = Undefined
            /\ enq[f].callback = Undefined
            /\ enq[f + 1].args[4] = issued[k].delay
            /\ enq[f + 1].callback = issued[k].callback

\* C12 as amended - settle-delay placement: of an instruction byte written
\* with a settle delay d, both nibble requests are enqueued with d, so the
\* low nibble starts no sooner than d after the high nibble was latched;
\* only the low-nibble request carries the caller's callback, the high
\* nibble carries none; a byte written without a delay has none on either
\* nibble.
C12_DelayOnBoth ==
    \A k \in 1 .. Len(issued) :
        (issued[k].kind = "byte" /\ issued[k].rs = Register.instruction) =>
            LET f == issued[k].first
                d == issued[k].delay
            IN  /\ enq[f].args[4] = d
                /\ enq[f + 1].args[4] = d
                /\ enq[f].callback = Undefined
                /\ enq[f + 1].callback = issued[k].callback
                /\ enq[f].args[3] = Shr(issued[k].bits, 4)
                /\ enq[f + 1].args[3] = issued[k].bits
                /\ (typeof(d) = "number" /\ Len(bus) >= f + 1) =>
                      /\ bus[f].delay = d
                      /\ bus[f + 1].delay = d
                      /\ bus[f + 1].at >= d.num

\* a clear called by the application has had both nibbles on the bus and
\* its callback has run
C12_Witness ==
    \E k \in DelayedBytes :
        /\ issued[k].call > 1
        /\ Len(bus) >= issued[k].first + 1
        /\ NotesOf(issued[k].call) # {}

\* the logical writes attach has handed to the queue
AttachWrites == SelectSeq(issued, LAMBDA w : w.call = 1)

\* the last queue position of a logical write
LastOf(w) == w.first + Size(w) - 1

\* the steps of attach whose requests have not all completed
AttachStepsOpen ==
    {k \in 1 .. Len(AttachWrites) : Completed < LastOf(AttachWrites[k])}

\* C13 as stated - attach step gating: a step of attach is enqueued only
\* after the step before has completed, so at no time are the requests of
\* two steps of attach pending or in flight.
C13_StepGating == Cardinality(AttachStepsOpen) <= 1

\* 0x38, bare 0x2, 0x28, display on, clear, entry mode, return home
AttachSteps ==
    <<[kind |-> "byte", bits |-> 56], [kind |-> "nibble", bits |-> 2],
      [kind |-> "byte", bits |-> 40], [kind |-> "byte", bits |-> 12],
      [kind |-> "byte", bits |-> 1], [kind |-> "byte", bits |-> 6],
      [kind |-> "byte", bits |-> 2]>>

\* C13 as amended - attach step ordering: attach enqueues all its steps
\* (0x38, bare nibble 0x2, 0x28, display-on, clear, entry-mode, return-home)
\* within the attach call, in that order and ahead of every other request;
\* the queue then starts the first transaction of each step only after the
\* last transaction of the step before has completed.
C13_StepOrder ==
    phase # "new" =>
        /\ Len(AttachWrites) = Len(AttachSteps)
        /\ \A k \in 1 .. Len(AttachSteps) :
              /\ issued[k].call = 1
              /\ issued[k].kind = AttachSteps[k].kind
              /\ issued[k].bits = AttachSteps[k].bits
              /\ issued[k].rs = Register.instruction
              /\ (k > 1 /\ Len(bus) >= issued[k].first) =>
                    Completed >= LastOf(issued[k - 1])
        /\ Len(enq) >= Len(AttachStream)

\* all steps of attach are in the queue while the transactions of an
\* earlier step are still on their way
C13_Witness ==
    /\ Len(AttachWrites) = Len(AttachSteps)
    /\ Completed = LastOf(issued[2])
    /\ Cardinality(AttachStepsOpen) > 1
    /\ Len(bus) = issued[3].first

\* this step signals the completion of a transaction whose request carries
\* a callback
CompletesNotified ==
    /\ Completed' > Completed
    /\ HasCallback(enq[Completed'])

\* C14 as stated - notifier before next: in the step that completes a
\* transaction and starts the next queued request on the bus, the callback
\* of the completed request has been invoked.
C14_NotifierFirst ==
    [][(CompletesNotified /\ Len(bus') > Len(bus)) =>
          Len(fired') > Len(fired)]_vars

\* the queue position of the request whose callback is invoked k-th
NotifiedRequest(k) == CallbackIndexes(enq, 1)[k]

\* C14 as amended - notifier scheduled before next: when a transaction
\* completes, the callback of its request is handed to setImmediate and not
\* yet invoked, and in the same step the next queued request, if any, is
\* dequeued and started on the bus; the callback is invoked in a later step
\* of its own, by when every request enqueued behind its own has had its
\* predecessor started, so a successor that was waiting is already on the
\* bus.
C14_NotifierScheduled ==
    /\ [][CompletesNotified =>
             /\ Completed' = Completed + 1
             /\ Len(fired') = Len(fired)
             /\ immediates' = Append(immediates,
                                  [callback |-> enq[Completed'].callback,
                                   error |-> Undefined, value |-> Undefined])
             /\ (Len(enq) > Completed') => Len(bus') = Len(bus) + 1]_vars
    /\ [][Len(fired') > Len(fired) =>
             /\ Len(fired') = Len(fired) + 1
             /\ immediates' = Tail(immediates)
             /\ Completed' = Completed
             /\ Completed >= NotifiedRequest(Len(fired'))
             /\ (Len(enq) > NotifiedRequest(Len(fired'))) =>
                   Len(bus) > NotifiedRequest(Len(fired'))]_vars

\* the callback of a completed request is waiting in setImmediate while the
\* request behind it is in flight
C14_Witness ==
    /\ immediates # <<>>
    /\ InFlight = 1
    /\ Len(bus) = NotifiedRequest(Len(fired) + 1) + 1
    /\ Len(bus) > Len(AttachStream)

\* the line writes one transaction of request item is to make, in order
ExpectedWrites(item) ==
    LET v == item.args[3]
    IN  <<(<<"rs", item.args[1]>>), (<<"rw", 0>>),
          (<<"d7", (v \div 8) % 2>>), (<<"d6", (v \div 4) % 2>>),
          (<<"d5", (v \div 2) % 2>>), (<<"d4", v % 2>>),
          (<<"e", 1>>), (<<"e", 0>>)>>

\* C15 - Bus Transport step order: a transaction writes rs, then rw (always
\* 0), then d7, d6, d5, d4 with bits 3, 2, 1, 0 of the value (higher bits
\* ignored), then enable high, then enable low.  Completion is signalled
\* one transaction at a time, only once the enable-low write has been
\* acknowledged, and for a numeric delay only in a later step than the
\* acknowledgement, when at least the delay has passed since it; once
\* signalled, the transaction has no acknowledgement or timer left that
\* could signal it again.
C15_BusTransport ==
    /\ [](bus # <<>> =>
            /\ wrote = ExpectedWrites(enq[Len(bus)])
            /\ enq[Len(bus)].args[2] = ReadWrite.write)
    /\ [](/\ \A j \in 1 .. Len(pendingAck) : pendingAck[j].tx > Completed
          /\ Len(timers) <= 1
          /\ Completed >= 0)
    /\ [][Completed' > Completed =>
             LET i == Completed'
             IN  /\ i = Completed + 1
                 /\ \A j \in 1 .. Len(pendingAck') : pendingAck'[j].tx > i
                 /\ timers' = <<>>
                 /\ IF typeof(bus[i].delay) = "number"
                    THEN /\ pendingAck = <<>>
                         /\ Len(timers) = 1
                         /\ timers[1].remaining = 0
                         /\ sinceLatch >= bus[i].delay.num
                    ELSE /\ Len(pendingAck) = 1
                         /\ pendingAck[1].tx = i
                         /\ timers = <<>>]_vars

\* the low nibble of the character 0xA5 was sent as 0101 on the data
\* register, bits 7-4 of the value ignored, and has completed
C15_Witness ==
    /\ bus # <<>>
    /\ enq[Len(bus)].args[3] = 165
    /\ wrote = <<(<<"rs", 1>>), (<<"rw", 0>>), (<<"d7", 0>>), (<<"d6", 1>>),
                 (<<"d5", 0>>), (<<"d4", 1>>), (<<"e", 1>>), (<<"e", 0>>)>>
    /\ Completed = Len(bus)

\* the requests waiting behind the one in flight
Backlog == IF _queue = <<>> THEN <<>> ELSE _queue[1]

\* the requests handed to _write in this step
Enqueued == SubSeq(enq', Len(enq) + 1, Len(enq'))

\* C16 - idle/busy: between handlers this._queue is undefined exactly when
\* no transaction is in flight and nothing waits, and the requests waiting
\* are exactly those handed in and not yet started; a request handed to an
\* idle driver is started on the bus in that step (those after it in the
\* same call wait), a request handed to a busy driver only joins the
\* backlog; at most one drain loop is active, and one is exactly when the
\* driver is busy.
C16_IdleBusy ==
    /\ [](/\ (_queue = <<>>) <=> (InFlight = 0 /\ Len(bus) = Len(enq))
          /\ (_queue = <<>>) <=> (activeItem = <<>>)
          /\ _queue # <<>> => /\ InFlight = 1
                              /\ activeItem[1] = enq[Len(bus)]
          /\ Backlog = SubSeq(enq, Len(bus) + 1, Len(enq))
          /\ loops = IF _queue = <<>> THEN 0 ELSE 1)
    /\ [][(_queue = <<>> /\ Len(enq') > Len(enq)) =>
             /\ Len(bus') = Len(bus) + 1
             /\ pendingAck' = <<[delay |-> Enqueued[1].args[4],
                                 callback |-> Function("_write.next", 0),
                                 tx |-> Len(bus')]>>
             /\ activeItem' = <<Enqueued[1]>>
             /\ _queue' = <<Tail(Enqueued)>>]_vars
    /\ [][(_queue # <<>> /\ Len(enq') > Len(enq)) =>
             /\ bus' = bus
             /\ pendingAck' = pendingAck
             /\ timers' = timers
             /\ activeItem' = activeItem
             /\ _queue' = <<_queue[1] \o Enqueued>>]_vars

\* after attach had drained, one call found the driver idle and the next
\* call found it busy with the first
C16_Witness ==
    /\ Len(calls) = 3
    /\ ~calls[2].busy
    /\ calls[3].busy
    /\ Len(Backlog) >= 2
    /\ InFlight = 1

\* the callbacks owed so far: those of the requests that have completed
Owed == CallbacksOf(SubSeq(enq, 1, Completed))

\* C17 - exactly-once consumption: the transactions started on the bus are
\* the requests handed to _write, one transaction per request and position,
\* with the register, direction, nibble and delay of the request; a request
\* not yet started waits in the backlog, and none waits when the driver is
\* idle; the callback of each completed request has been scheduled once:
\* it has run or waits in setImmediate, and the k-th callback run belongs
\* to the k-th request that carries one.
C17_ExactlyOnce ==
    /\ Len(bus) <= Len(enq)
    /\ \A i \in 1 .. Len(bus) :
          <<bus[i].rs, bus[i].rw, bus[i].d, bus[i].delay>> =
              <<enq[i].args[1], enq[i].args[2], enq[i].args[3] % 16,
                enq[i].args[4]>>
    /\ Len(Backlog) = Len(enq) - Len(bus)
    /\ _queue = <<>> => Len(bus) = Len(enq)
    /\ Len(fired) + Len(immediates) = Len(Owed)
    /\ \A k \in 1 .. Len(fired) :
          /\ NotifiedRequest(k) <= Completed
          /\ fired[k].callback = enq[NotifiedRequest(k)].callback
    /\ \A k \in 1 .. Len(immediates) :
          immediates[k].callback = Owed[Len(fired) + k]

\* a call was made just as the queue had drained to empty: the callback of
\* the last request before it still waits in setImmediate, and the call's
\* first request is in flight
C17_Witness ==
    /\ Len(calls) >= 2
    /\ ~calls[Len(calls)].busy
    /\ immediates # <<>>
    /\ InFlight = 1
    /\ \E k \in 1 .. Len(issued) :
          /\ issued[k].call = Len(calls)
          /\ issued[k].first = Len(bus)
          /\ NotifiedRequest(Len(fired) + 1) = Len(bus) - 1

\* the continuation print call c hands to _write with each character
CharNext(c) == Function("eachSeries.next", c)

\* how many character callbacks of print call c have run
NotifiedChars(c) ==
    Cardinality({k \in 1 .. Len(fired) : fired[k].callback = CharNext(c)})

\* the queue position of the i-th character print call c has handed out
CharAt(c, i) == PrintWrites(c)[i].first

PrintsNothing ==
    /\ Len(calls') = Len(calls) + 1
    /\ calls'[Len(calls')].op = "print"
    /\ calls'[Len(calls')].text = <<>>

\* C19 - print of the empty text: the call enqueues nothing and starts
\* nothing, leaves this._queue, the request in flight, the pending
\* acknowledgements, timers and setImmediate entries, the lines and the
\* display-control mask as they were, and its callback has run, without an
\* error, when the call returns - also when the driver is busy.
C19_EmptyPrint ==
    [][PrintsNothing =>
          /\ enq' = enq /\ issued' = issued /\ bus' = bus
          /\ _queue' = _queue /\ activeItem' = activeItem /\ loops' = loops
          /\ pendingAck' = pendingAck /\ timers' = timers
          /\ immediates' = immediates /\ fired' = fired
          /\ lines' = lines /\ wrote' = wrote
          /\ _displayControl' = _displayControl
          /\ calls'[Len(calls')].busy = (_queue # <<>>)
          /\ notes' = Append(notes, [call |-> Len(calls'),
                                     error |-> Undefined])]_vars

\* the callback of an empty print has run while the requests of attach are
\* still on their way and attach's own callback has not run
C19_Witness ==
    \E c \in Prints :
        /\ calls[c].text = <<>>
        /\ calls[c].busy
        /\ NotesOf(c) # {}
        /\ NotesOf(1) = {}
        /\ InFlight = 1
        /\ Len(Backlog) >= 1

\* the set-display-control instructions handed to the queue so far
AllControl ==
    SelectSeq(issued, LAMBDA w : /\ w.kind = "byte"
                                 /\ w.rs = Register.instruction
                                 /\ w.bits \div 8 = 1)

\* the byte the bus carried at queue positions f and f + 1
ByteAt(f) == 16 * bus[f].d + bus[f + 1].d

\* C20 - display-control consistency: from attach on the mask is within
\* 0..7; the set-display-control instruction handed to the queue last is
\* always 0x08 | mask, and whenever the driver is idle that instruction is
\* the last one of its kind the bus has carried, as 0x0 then 0x8 | mask on
\* the instruction register.
C20_MaskConsistent ==
    /\ phase # "new" => _displayControl \in 0 .. 7
    /\ phase # "new" => AllControl # <<>>
    /\ AllControl # <<>> =>
          LET w == AllControl[Len(AllControl)]
          IN  /\ w.bits = 8 + _displayControl
              /\ _queue = <<>> =>
                    /\ Len(bus) >= w.first + 1
                    /\ ByteAt(w.first) = 8 + _displayControl
                    /\ bus[w.first].rs = 0 /\ bus[w.first + 1].rs = 0

\* two toggles by the application have been transmitted, the driver is idle
\* and the display shows cursor and blink
C20_Witness ==
    /\ _queue = <<>>
    /\ Len(AllControl) = 3
    /\ _displayControl = 7
    /\ ByteAt(AllControl[3].first) = 15

====
